---- MODULE Spec2Model ----
(***************************************************************************)
(* Model of src/face-detection-app-two/src/App.vue: the mounted() setup    *)
(* chain, the onloadedmetadata handler, the self-rescheduling detectFaces  *)
(* loop, and the helpers getCenter and drawLabel.                          *)
(*                                                                         *)
(* One action is one run-to-completion segment of JavaScript: the code     *)
(* that runs between two suspension points (an await settling, an event    *)
(* handler, a frame callback).  The external services (tf, the detector,   *)
(* getUserMedia, the video element) are nondeterministic: every awaited    *)
(* promise may resolve or reject, and an event handler that stays          *)
(* installed may be invoked again.                                         *)
(***************************************************************************)
EXTENDS Integers, Sequences, FiniteSets, TLC

(***************************************************************************)
(* Bounds of the model.                                                    *)
(***************************************************************************)
\* how many loadedmetadata events the video element delivers
MaxMetadata == 2
\* how many points a landmark group, or the keypoint list, holds at most
MaxPoints == 2
MaxGroupLen == 4

(***************************************************************************)
(* Values.                                                                 *)
(***************************************************************************)
Null == "null"

\* JavaScript's undefined / a defined value, as a sequence of length 0 / 1
Undefined == << >>
Defined(v) == << v >>
IsUndefined(o) == Len(o) = 0
ValueOf(o) == o[1]

\* messages carried by the rejections of the external calls
Messages == {"NotAllowedError", "NetworkError"}

\* the TypeError raised by reading a property of undefined
TypeErrorMessage(prop) == "Cannot read properties of undefined (reading '" \o prop \o "')"

\* the sizes the video element may report once its metadata is known
VideoSizes == {<<640, 480>>, <<320, 240>>}
\* the size of a canvas element whose width and height were never set
DefaultCanvasSize == <<300, 150>>

(***************************************************************************)
(* Numbers: JavaScript's division is not integer division, so coordinates  *)
(* are exact rationals <<numerator, denominator>> in lowest terms.         *)
(***************************************************************************)
Abs(n) == IF n < 0 THEN -n ELSE n

RECURSIVE GCD(_, _)
GCD(a, b) == IF b = 0 THEN a ELSE GCD(b, a % b)

\* n / d for integers n and d > 0
Quotient(n, d) ==
    LET g == GCD(Abs(n), d)
    IN  IF g = 0 THEN <<0, 1>> ELSE <<n \div g, d \div g>>

Num(n) == <<n, 1>>
\* q + k for a rational q and an integer k
Plus(q, k) == Quotient(q[1] + k * q[2], q[2])
\* q < n for a rational q and an integer n
Less(q, n) == q[1] < n * q[2]

(***************************************************************************)
(* What estimateFaces may resolve with.  The detector is configured with   *)
(* maxFaces: 1, so a result holds zero or one prediction.  A prediction    *)
(* has the two properties the code reads, keypoints and annotations; each  *)
(* may be missing, and so may each landmark group of the annotations.      *)
(***************************************************************************)
MaxFaces == 1

GroupNames == <<"leftEyeUpper0", "rightEyeUpper0", "noseBottom", "lipsUpperOuter">>
Groups == {GroupNames[k] : k \in 1..4}

\* the i-th point of the k-th landmark group, and the i-th keypoint
GroupPoint(k, i) == <<60 * k + 7 * (i - 1), 40 + 30 * k + 5 * (i - 1)>>
KeyPoint(i) == <<20 + 9 * (i - 1), 25 + 4 * (i - 1)>>

\* the shapes of one landmark group: -1 is a missing group, n >= 0 a group of n points
GroupShape(k, n) ==
    IF n < 0 THEN Undefined ELSE Defined([i \in 1..n |-> GroupPoint(k, i)])

\* the sizes of the four groups of one annotations object: all four alike, or
\* one group missing or empty beside three full ones
GroupSizes ==
    {c \in [1..4 -> -1..MaxPoints] :
        \/ \E n \in -1..MaxPoints : \A k \in 1..4 : c[k] = n
        \/ \E k \in 1..4 : c[k] <= 0 /\ \A j \in (1..4) \ {k} : c[j] = MaxPoints}

AnnotationValues ==
    {Undefined} \cup
    {Defined([g \in Groups |->
                  LET k == CHOOSE j \in 1..4 : GroupNames[j] = g
                  IN  GroupShape(k, c[k])]) : c \in GroupSizes}

\* the keypoints of a prediction: missing, none, or MaxPoints of them
KeypointValues ==
    {Undefined} \cup {Defined([i \in 1..n |-> KeyPoint(i)]) : n \in {0, MaxPoints}}

PredictionValues ==
    {[keypoints |-> k, annotations |-> a] : k \in KeypointValues, a \in AnnotationValues}

Predictions ==
    UNION {[1..n -> PredictionValues] : n \in 0..MaxFaces}

(***************************************************************************)
(* The 2D context: a call is a record, the bitmap is the sequence of the   *)
(* marks painted on it.  A mark whose anchor lies outside the bitmap       *)
(* leaves nothing on it.                                                   *)
(***************************************************************************)
Call(op) ==
    [op |-> op, text |-> "", x |-> Num(0), y |-> Num(0), w |-> 0, h |-> 0,
     r |-> 0, style |-> "", font |-> ""]

\* ctx.clearRect(x, y, w, h)
clearRectCall(x, y, w, h) ==
    [Call("clearRect") EXCEPT !.x = Num(x), !.y = Num(y), !.w = w, !.h = h]

\* beginPath, arc(point[0], point[1], 2, 0, 2 * Math.PI), fillStyle = 'red', fill
arcCall(point) ==
    [Call("arc") EXCEPT !.x = Num(point[1]), !.y = Num(point[2]), !.r = 2,
                        !.style = "red"]

\* drawLabel(x, y, label): font, fillStyle = 'blue', fillText(label, x, y)
drawLabel(x, y, label) ==
    [Call("fillText") EXCEPT !.text = label, !.x = x, !.y = y,
                             !.style = "blue", !.font = "14px Arial"]

IsDraw(c) == c.op \in {"arc", "fillText"}

\* the calls of one kind among the calls
CallsOf(calls, op) == LET Is(c) == c.op = op IN SelectSeq(calls, Is)

\* the anchor of a mark lies inside the rectangle (x, y, w, h)
Inside(c, x, y, w, h) ==
    /\ ~Less(c.x, x) /\ Less(c.x, x + w)
    /\ ~Less(c.y, y) /\ Less(c.y, y + h)

\* the bitmap after clearRect(x, y, w, h)
ClearRect(bitmap, x, y, w, h) ==
    LET Kept(c) == ~Inside(c, x, y, w, h)
    IN  SelectSeq(bitmap, Kept)

\* the bitmap of the given size after the draw calls
Paint(bitmap, calls, size) ==
    LET Lands(c) == IsDraw(c) /\ Inside(c, 0, 0, size[1], size[2])
    IN  bitmap \o SelectSeq(calls, Lands)

(***************************************************************************)
(* getCenter(points)                                                       *)
(***************************************************************************)
RECURSIVE SumCoord(_, _, _)
SumCoord(points, coord, n) ==
    IF n = 0 THEN 0 ELSE SumCoord(points, coord, n - 1) + points[n][coord]

\* getCenter with the two divisions truncated to whole pixels.
getCenterTruncating(points) ==
    IF IsUndefined(points) \/ Len(ValueOf(points)) = 0
    THEN [x |-> Num(0), y |-> Num(0)]
    ELSE LET ps == ValueOf(points)
         IN  [x |-> Num(SumCoord(ps, 1, Len(ps)) \div Len(ps)),
              y |-> Num(SumCoord(ps, 2, Len(ps)) \div Len(ps))]

getCenter(points) ==
    IF IsUndefined(points) \/ Len(ValueOf(points)) = 0
    THEN [x |-> Num(0), y |-> Num(0)]
    ELSE LET ps == ValueOf(points)
         IN  [x |-> Quotient(SumCoord(ps, 1, Len(ps)), Len(ps)),
              y |-> Quotient(SumCoord(ps, 2, Len(ps)), Len(ps))]

(***************************************************************************)
(* The body of predictions.forEach in detectFaces: the calls made for one  *)
(* prediction, and the message of the exception that ended it, if any.     *)
(***************************************************************************)
\* LabelCalls with the right eye's label placed from the left eye's centroid.
LabelCallsLeftEyeTwice(annotations) ==
    LET leftEyeCenter  == getCenter(annotations["leftEyeUpper0"])
        noseCenter     == getCenter(annotations["noseBottom"])
        mouthCenter    == getCenter(annotations["lipsUpperOuter"])
    IN  << drawLabel(leftEyeCenter.x, Plus(leftEyeCenter.y, -20), "Left Eye"),
           drawLabel(leftEyeCenter.x, Plus(leftEyeCenter.y, -20), "Right Eye"),
           drawLabel(noseCenter.x, Plus(noseCenter.y, 10), "Nose"),
           drawLabel(mouthCenter.x, Plus(mouthCenter.y, 20), "Mouth") >>

LabelCalls(annotations) ==
    LET leftEyeCenter  == getCenter(annotations["leftEyeUpper0"])
        rightEyeCenter == getCenter(annotations["rightEyeUpper0"])
        noseCenter     == getCenter(annotations["noseBottom"])
        mouthCenter    == getCenter(annotations["lipsUpperOuter"])
    IN  << drawLabel(leftEyeCenter.x, Plus(leftEyeCenter.y, -20), "Left Eye"),
           drawLabel(rightEyeCenter.x, Plus(rightEyeCenter.y, -20), "Right Eye"),
           drawLabel(noseCenter.x, Plus(noseCenter.y, 10), "Nose"),
           drawLabel(mouthCenter.x, Plus(mouthCenter.y, 20), "Mouth") >>

MarkerCalls(keypoints) == [i \in 1..Len(keypoints) |-> arcCall(keypoints[i])]

DrawPrediction(prediction) ==
    IF IsUndefined(prediction.keypoints)
    THEN [calls |-> << >>, threw |-> TypeErrorMessage("forEach")]
    ELSE IF IsUndefined(prediction.annotations)
    THEN [calls |-> MarkerCalls(ValueOf(prediction.keypoints)),
          threw |-> TypeErrorMessage("leftEyeUpper0")]
    ELSE [calls |-> MarkerCalls(ValueOf(prediction.keypoints))
                        \o LabelCalls(ValueOf(prediction.annotations)),
          threw |-> Null]

\* predictions.forEach(...), from the i-th prediction on: stops at the first exception
RECURSIVE DrawFrom(_, _)
DrawFrom(predictions, i) ==
    IF i > Len(predictions) THEN [calls |-> << >>, threw |-> Null]
    ELSE LET first == DrawPrediction(predictions[i])
         IN  IF first.threw # Null THEN first
             ELSE LET rest == DrawFrom(predictions, i + 1)
                  IN  [calls |-> first.calls \o rest.calls, threw |-> rest.threw]

(***************************************************************************)
(* State.                                                                  *)
(***************************************************************************)
VARIABLES
    pc,               \* where mounted() is: the await it is suspended at, "mounted" or "failed"
    backend,          \* what tf.getBackend() returns
    tfReady,          \* tf.ready() has resolved
    model,            \* this.model
    ctx,              \* this.ctx (this.video and this.canvas are bound with it)
    srcObject,        \* this.video.srcObject
    onloadedmetadata, \* the handler is installed on the video
    playing,          \* this.video.play() was called
    videoSize,        \* <<video.videoWidth, video.videoHeight>>
    canvasSize,       \* <<canvas.width, canvas.height>>
    canvas,           \* the bitmap of the canvas
    error,            \* this.error
    rafPending,       \* frame callbacks () => this.detectFaces() requested and not yet run
    inflight,         \* ticks of detectFaces suspended at await estimateFaces
    metadataEvents,   \* loadedmetadata events delivered so far
    lastTick,         \* what the most recent segment of code was
    lastCalls,        \* the calls that segment made, in order
    lastPredictions,  \* what estimateFaces resolved with, if that segment resumed a tick
    thrown,           \* the message of the exception that segment caught, or Null
    waits,            \* how many ticks took the "wait and try again" branch so far, modulo 2
    erased,           \* how many marks that segment removed from the bitmap
    points,           \* the argument of a call of getCenter made on its own
    center            \* what that call returned, once it has

vars == <<pc, backend, tfReady, model, ctx, srcObject, onloadedmetadata, playing,
          videoSize, canvasSize, canvas, error, rafPending, inflight,
          metadataEvents, lastTick, lastCalls, lastPredictions, thrown, waits,
          erased, points, center>>

setupVars == <<pc, backend, tfReady, model, ctx, srcObject, onloadedmetadata>>
loopVars == <<playing, videoSize, canvasSize, canvas, rafPending, inflight,
              metadataEvents, lastPredictions, waits>>
centerVars == <<points, center>>

\* data() and the start of mounted(): suspended at await tf.setBackend('webgl')
Constructed ==
    /\ pc = "setBackendWebgl"
    /\ backend = "none"
    /\ tfReady = FALSE
    /\ model = Null
    /\ ctx = Null
    /\ srcObject = Null
    /\ onloadedmetadata = FALSE
    /\ playing = FALSE
    /\ videoSize = <<0, 0>>
    /\ canvasSize = DefaultCanvasSize
    /\ canvas = << >>
    /\ error = Null
    /\ rafPending = 0
    /\ inflight = 0
    /\ metadataEvents = 0
    /\ lastTick = "none"
    /\ lastCalls = << >>
    /\ lastPredictions = << >>
    /\ thrown = Null
    /\ waits = 0
    /\ erased = 0

Init ==
    /\ Constructed
    /\ points = Undefined
    /\ center = Undefined

(***************************************************************************)
(* mounted()                                                               *)
(***************************************************************************)
\* the message without its prefix
InitializeMessageBare(message) == message

InitializeMessage(message) == "Failed to initialize: " \o message
BackendMessage == "Failed to set any TensorFlow.js backend."

\* the catch block of mounted
MountedCatch(message) ==
    /\ error' = InitializeMessage(message)
    /\ thrown' = message
    /\ pc' = "failed"

\* a step of mounted completed and the next one was started
MountedContinue(next) ==
    /\ pc' = next
    /\ error' = error
    /\ thrown' = Null

\* a segment of mounted ran: it is no tick and makes no call on the canvas
SetupSegment ==
    /\ lastTick' = "setup"
    /\ lastCalls' = << >>
    /\ erased' = 0
    /\ UNCHANGED loopVars
    /\ UNCHANGED centerVars

\* what tf.getBackend() returns after setBackend(name) has resolved
BackendAfter(name) == {name, backend}

\* await tf.setBackend('webgl') settles; the test of tf.getBackend() follows
SetBackendWebgl ==
    /\ pc = "setBackendWebgl"
    /\ \/ \E b \in BackendAfter("webgl") :
            /\ backend' = b
            /\ MountedContinue(IF b = "webgl" THEN "ready" ELSE "setBackendCpu")
       \/ \E m \in Messages : MountedCatch(m) /\ backend' = backend
    /\ SetupSegment
    /\ UNCHANGED <<tfReady, model, ctx, srcObject, onloadedmetadata>>

\* await tf.setBackend('cpu') settles; the test of tf.getBackend() follows
SetBackendCpu ==
    /\ pc = "setBackendCpu"
    /\ \/ \E b \in BackendAfter("cpu") :
            /\ backend' = b
            /\ IF b # "cpu"
               THEN MountedCatch(BackendMessage)
               ELSE MountedContinue("ready")
       \/ \E m \in Messages : MountedCatch(m) /\ backend' = backend
    /\ SetupSegment
    /\ UNCHANGED <<tfReady, model, ctx, srcObject, onloadedmetadata>>

\* tf.ready() called without await: createDetector is called before it has resolved
ReadyNotAwaited ==
    /\ pc = "ready"
    /\ \/ tfReady' = tfReady /\ MountedContinue("createDetector")
       \/ \E m \in Messages : MountedCatch(m) /\ tfReady' = tfReady
    /\ SetupSegment
    /\ UNCHANGED <<backend, model, ctx, srcObject, onloadedmetadata>>

\* await tf.ready() settles; createDetector is called
Ready ==
    /\ pc = "ready"
    /\ \/ tfReady' = TRUE /\ MountedContinue("createDetector")
       \/ \E m \in Messages : MountedCatch(m) /\ tfReady' = tfReady
    /\ SetupSegment
    /\ UNCHANGED <<backend, model, ctx, srcObject, onloadedmetadata>>

\* await createDetector(...) settles; the refs are bound and getUserMedia is called
CreateDetector ==
    /\ pc = "createDetector"
    /\ \/ /\ model' = "detector"
          /\ ctx' = "2d"
          /\ MountedContinue("getUserMedia")
       \/ \E m \in Messages : MountedCatch(m) /\ model' = model /\ ctx' = ctx
    /\ SetupSegment
    /\ UNCHANGED <<backend, tfReady, srcObject, onloadedmetadata>>

\* await getUserMedia(...) settles; the stream is attached and the handler installed
GetUserMedia ==
    /\ pc = "getUserMedia"
    /\ \/ /\ srcObject' = "stream"
          /\ onloadedmetadata' = TRUE
          /\ MountedContinue("mounted")
       \/ \E m \in Messages :
            MountedCatch(m) /\ srcObject' = srcObject /\ onloadedmetadata' = onloadedmetadata
    /\ SetupSegment
    /\ UNCHANGED <<backend, tfReady, model, ctx>>

(***************************************************************************)
(* detectFaces()                                                           *)
(***************************************************************************)
DetectionMessage(message) == "Detection failed: " \o message

\* the gate without its test of the backend
GatedModelOnly == model = Null

\* !this.model || tf.getBackend() !== 'webgl'
Gated == model = Null \/ backend # "webgl"

\* detectFaces() with a gate that returns without requesting another frame
DetectFacesEnterGivesUp(raf) ==
    IF Gated
    THEN /\ rafPending' = raf
         /\ inflight' = inflight
         /\ lastTick' = "gated"
         /\ lastCalls' = << >>
         /\ thrown' = Null
         /\ waits' = (waits + 1) % 2
    ELSE /\ rafPending' = raf
         /\ inflight' = inflight + 1
         /\ lastTick' = "called"
         /\ lastCalls' = << Call("estimateFaces") >>
         /\ thrown' = Null
         /\ waits' = waits

\* detectFaces() up to its first suspension, entered with raf callbacks pending:
\* either the gate reschedules and returns, or estimateFaces is called
DetectFacesEnter(raf) ==
    IF Gated
    THEN /\ rafPending' = raf + 1
         /\ inflight' = inflight
         /\ lastTick' = "gated"
         /\ lastCalls' = << Call("requestAnimationFrame") >>
         /\ thrown' = Null
         /\ waits' = (waits + 1) % 2
    ELSE /\ rafPending' = raf
         /\ inflight' = inflight + 1
         /\ lastTick' = "called"
         /\ lastCalls' = << Call("estimateFaces") >>
         /\ thrown' = Null
         /\ waits' = waits

\* video.onloadedmetadata: play, size the canvas (which resets its bitmap), detectFaces()
OnLoadedMetadata ==
    /\ onloadedmetadata
    /\ metadataEvents < MaxMetadata
    /\ metadataEvents' = metadataEvents + 1
    /\ playing' = TRUE
    /\ \E size \in VideoSizes :
            /\ videoSize' = size
            /\ canvasSize' = size
    /\ canvas' = << >>
    /\ erased' = Len(canvas)
    /\ DetectFacesEnter(rafPending)
    /\ UNCHANGED <<error, lastPredictions>>
    /\ UNCHANGED setupVars
    /\ UNCHANGED centerVars

\* a frame callback () => this.detectFaces() runs
FrameCallback ==
    /\ rafPending > 0
    /\ DetectFacesEnter(rafPending - 1)
    /\ erased' = 0
    /\ UNCHANGED <<playing, videoSize, canvasSize, canvas, metadataEvents,
                   error, lastPredictions>>
    /\ UNCHANGED setupVars
    /\ UNCHANGED centerVars

\* the tick without its final requestAnimationFrame
TickCallsNoReschedule(predictions) ==
    LET drawn == IF Len(predictions) > 0
                 THEN DrawFrom(predictions, 1)
                 ELSE [calls |-> << >>, threw |-> Null]
    IN  [calls |-> << clearRectCall(0, 0, canvasSize[1], canvasSize[2]) >> \o drawn.calls,
         threw |-> drawn.threw]

\* the tick with requestAnimationFrame called first, before the canvas is cleared
TickCallsRescheduleFirst(predictions) ==
    LET drawn == IF Len(predictions) > 0
                 THEN DrawFrom(predictions, 1)
                 ELSE [calls |-> << >>, threw |-> Null]
    IN  [calls |-> << Call("requestAnimationFrame"),
                      clearRectCall(0, 0, canvasSize[1], canvasSize[2]) >> \o drawn.calls,
         threw |-> drawn.threw]

\* the tick with clearRect moved inside if (predictions.length > 0)
TickCallsClearInsideIf(predictions) ==
    IF Len(predictions) = 0
    THEN [calls |-> << Call("requestAnimationFrame") >>, threw |-> Null]
    ELSE LET drawn == DrawFrom(predictions, 1)
         IN  [calls |-> << clearRectCall(0, 0, canvasSize[1], canvasSize[2]) >>
                           \o drawn.calls
                           \o (IF drawn.threw = Null
                               THEN << Call("requestAnimationFrame") >> ELSE << >>),
              threw |-> drawn.threw]

\* the calls of detectFaces after estimateFaces has resolved, up to the first exception
TickCalls(predictions) ==
    LET drawn == IF Len(predictions) > 0
                 THEN DrawFrom(predictions, 1)
                 ELSE [calls |-> << >>, threw |-> Null]
    IN  [calls |-> << clearRectCall(0, 0, canvasSize[1], canvasSize[2]) >> \o drawn.calls
                      \o (IF drawn.threw = Null
                          THEN << Call("requestAnimationFrame") >> ELSE << >>),
         threw |-> drawn.threw]

\* the bitmap after the calls, made in order
RECURSIVE Apply(_, _, _)
Apply(bitmap, calls, size) ==
    IF Len(calls) = 0 THEN bitmap
    ELSE LET c == Head(calls)
             next == IF c.op = "clearRect"
                     THEN ClearRect(bitmap, c.x[1], c.y[1], c.w, c.h)
                     ELSE Paint(bitmap, << c >>, size)
         IN  Apply(next, Tail(calls), size)

\* the promise of estimateFaces resolves: clear, draw, reschedule (or catch)
EstimateFacesResolves ==
    /\ inflight > 0
    /\ inflight' = inflight - 1
    /\ \E predictions \in Predictions :
         /\ lastPredictions' = predictions
         /\ \E tick \in {TickCalls(predictions)} :
             /\ lastCalls' = tick.calls
             /\ canvas' = Apply(canvas, tick.calls, canvasSize)
             /\ erased' = Len(canvas) - Len(Apply(canvas, << Head(tick.calls) >>, canvasSize))
             /\ thrown' = tick.threw
             /\ rafPending' = rafPending + Len(CallsOf(tick.calls, "requestAnimationFrame"))
             /\ IF tick.threw = Null
                THEN /\ error' = error
                     /\ lastTick' = "rendered"
                ELSE /\ error' = DetectionMessage(tick.threw)
                     /\ lastTick' = "drawThrew"
    /\ UNCHANGED <<playing, videoSize, canvasSize, metadataEvents, waits>>
    /\ UNCHANGED setupVars
    /\ UNCHANGED centerVars

\* a catch block that also requests the next frame
EstimateFacesRejectsRetries ==
    /\ inflight > 0
    /\ \E m \in Messages : error' = DetectionMessage(m) /\ thrown' = m
    /\ inflight' = inflight - 1
    /\ lastTick' = "rejected"
    /\ lastCalls' = << Call("requestAnimationFrame") >>
    /\ rafPending' = rafPending + 1
    /\ erased' = 0
    /\ UNCHANGED <<playing, videoSize, canvasSize, canvas,
                   metadataEvents, lastPredictions, waits>>
    /\ UNCHANGED setupVars
    /\ UNCHANGED centerVars

\* a catch block that also clears the canvas
EstimateFacesRejectsClears ==
    /\ inflight > 0
    /\ \E m \in Messages : error' = DetectionMessage(m) /\ thrown' = m
    /\ inflight' = inflight - 1
    /\ lastTick' = "rejected"
    /\ lastCalls' = << clearRectCall(0, 0, canvasSize[1], canvasSize[2]) >>
    /\ canvas' = ClearRect(canvas, 0, 0, canvasSize[1], canvasSize[2])
    /\ erased' = Len(canvas) - Len(canvas')
    /\ UNCHANGED <<playing, videoSize, canvasSize, rafPending,
                   metadataEvents, lastPredictions, waits>>
    /\ UNCHANGED setupVars
    /\ UNCHANGED centerVars

\* the promise of estimateFaces rejects: the catch block of detectFaces
EstimateFacesRejects ==
    /\ inflight > 0
    /\ \E m \in Messages : error' = DetectionMessage(m) /\ thrown' = m
    /\ inflight' = inflight - 1
    /\ lastTick' = "rejected"
    /\ lastCalls' = << >>
    /\ erased' = 0
    /\ UNCHANGED <<playing, videoSize, canvasSize, canvas, rafPending,
                   metadataEvents, lastPredictions, waits>>
    /\ UNCHANGED setupVars
    /\ UNCHANGED centerVars

(***************************************************************************)
(* Specifications.                                                         *)
(***************************************************************************)
Next ==
    \/ SetBackendWebgl
    \/ SetBackendCpu
    \/ Ready
    \/ CreateDetector
    \/ GetUserMedia
    \/ OnLoadedMetadata
    \/ FrameCallback
    \/ EstimateFacesResolves
    \/ EstimateFacesRejects

Spec == Init /\ [][Next]_vars

\* frame callbacks always fire and every estimateFaces call settles
FairSpec ==
    /\ Spec
    /\ WF_vars(FrameCallback)
    /\ WF_vars(EstimateFacesResolves \/ EstimateFacesRejects)

(***************************************************************************)
(* getCenter called on its own.  The argument is a missing group or any    *)
(* group of at most MaxGroupLen points taken from CenterPoints: the four   *)
(* corners of a square of side 10 and one point off the square, so that    *)
(* groups of one point, of one point repeated, of the four corners and of  *)
(* points whose mean is not a whole number all occur.                      *)
(***************************************************************************)
CenterPoints == {<<0, 0>>, <<10, 0>>, <<0, 10>>, <<10, 10>>, <<3, 7>>}

CenterGroups == UNION {[1..n -> CenterPoints] : n \in 0..MaxGroupLen}

CenterInputs == {Undefined} \cup {Defined(ps) : ps \in CenterGroups}

CenterInit ==
    /\ Constructed
    /\ points \in CenterInputs
    /\ center = Undefined

CallGetCenter ==
    /\ IsUndefined(center)
    /\ center' = Defined(getCenter(points))
    /\ UNCHANGED <<points, setupVars, loopVars, error, lastTick, lastCalls, thrown,
                   erased>>

CenterNext == CallGetCenter

CenterSpec == CenterInit /\ [][CenterNext]_vars

(***************************************************************************)
(* Vocabulary of the properties.                                           *)
(***************************************************************************)
\* the segments that belong to a tick of detectFaces
TickKinds == {"gated", "called", "rendered", "drawThrew", "rejected"}
\* the segments in which a tick caught an exception
FailedKinds == {"drawThrew", "rejected"}

\* every message an exception of a tick can carry
TickMessages == Messages \cup {TypeErrorMessage("forEach"), TypeErrorMessage("leftEyeUpper0")}
\* the error field holds the message of a failed tick
DetectionFailed == error \in {"Detection failed: " \o m : m \in TickMessages}

\* a call that clears or draws on the canvas
TouchesCanvas(c) == c.op \in {"clearRect", "arc", "fillText"}
CanvasCalls(calls) == SelectSeq(calls, TouchesCanvas)

(***************************************************************************)
(* C1  Tick fatality: a tick that catches an exception sets error to       *)
(* 'Detection failed: ' and the exception's message and schedules no       *)
(* further tick, and once a tick has failed no segment of any tick runs    *)
(* again.                                                                  *)
(***************************************************************************)
\* the failing tick itself: the message, and nothing scheduled
C1_CatchStep ==
    lastTick' \in FailedKinds =>
        /\ error' = "Detection failed: " \o thrown'
        /\ rafPending' = rafPending
        /\ inflight' = inflight - 1
        /\ CallsOf(lastCalls', "requestAnimationFrame") = << >>

\* after a failed tick: no tick segment, hence no inference and no drawing
C1_Halted == DetectionFailed => lastTick' \notin TickKinds

C1_CatchOnly == [][C1_CatchStep]_vars

C1_TickFatality == [][C1_CatchStep /\ C1_Halted]_vars

(***************************************************************************)
(* C2  Backend gating: a tick that starts while the backend is not 'webgl' *)
(* or the model is not loaded calls neither estimateFaces nor clearRect    *)
(* nor any drawing, and requests exactly one frame callback.               *)
(***************************************************************************)
C2_BackendGating ==
    [][ (lastTick' \in {"gated", "called"} /\ (model = Null \/ backend # "webgl")) =>
            /\ lastTick' = "gated"
            /\ lastCalls' = << Call("requestAnimationFrame") >>
            /\ inflight' = inflight
            /\ error' = error
            /\ rafPending' = IF metadataEvents' = metadataEvents
                             THEN rafPending ELSE rafPending + 1
            /\ metadataEvents' = metadataEvents => canvas' = canvas ]_vars

C2_Witness ==
    /\ lastTick = "gated"
    /\ backend = "cpu"
    /\ rafPending = 1
    /\ inflight = 0

(***************************************************************************)
(* C3  Setup fatality: when a step of mounted fails, error is 'Failed to   *)
(* initialize: ' and the message, no later step has run or will run, and   *)
(* detectFaces is never entered: nothing is pending, nothing was called,   *)
(* cleared or drawn, and no action is enabled any more.                    *)
(***************************************************************************)
C3_SetupFatality ==
    ((lastTick = "setup" /\ thrown # Null) \/ pc = "failed") =>
        /\ pc = "failed"
        /\ error = "Failed to initialize: " \o thrown
        /\ srcObject = Null
        /\ ~onloadedmetadata
        /\ metadataEvents = 0
        /\ rafPending = 0 /\ inflight = 0
        /\ canvas = << >> /\ lastCalls = << >>
        /\ ~ENABLED Next

\* the camera is denied after the backend and the model were set up
C3_Witness ==
    /\ pc = "failed"
    /\ thrown = "NotAllowedError"
    /\ model = "detector"
    /\ error = "Failed to initialize: NotAllowedError"

(***************************************************************************)
(* C4  No two ticks overlap: at most one tick is pending (a requested      *)
(* frame callback) or in progress (suspended at estimateFaces).            *)
(***************************************************************************)
C4_NoOverlap == rafPending + inflight <= 1

(***************************************************************************)
(* C5  Clear-then-draw: after a tick that rendered, the bitmap holds the   *)
(* marks of that tick's own result and nothing else; it is blank when the  *)
(* result is empty.                                                        *)
(***************************************************************************)
C5_ClearThenDraw ==
    lastTick = "rendered" =>
        /\ canvas = Paint(<< >>, DrawFrom(lastPredictions, 1).calls, canvasSize)
        /\ Len(lastPredictions) = 0 => canvas = << >>

\* an empty result arrived while the marks of an earlier tick were on the bitmap
C5_Witness ==
    /\ lastTick = "rendered"
    /\ Len(lastPredictions) = 0
    /\ erased > 0
    /\ canvas = << >>

(***************************************************************************)
(* C6  Loop liveness.  Under FairSpec (frame callbacks fire, estimateFaces *)
(* settles): in every behaviour in which the loop was started and no error *)
(* is ever set, estimateFaces is called infinitely often and a tick        *)
(* renders infinitely often.                                               *)
(***************************************************************************)
LoopRunning == metadataEvents > 0 /\ error = Null

\* as claimed: whichever backend setup ended on
C6_LoopLiveness ==
    /\ []<>(~LoopRunning \/ lastTick = "called")
    /\ []<>(~LoopRunning \/ lastTick = "rendered")

\* as amended: when setup ended on the accelerated backend
C6_LoopLivenessWebgl ==
    /\ []<>(~(LoopRunning /\ backend = "webgl") \/ lastTick = "called")
    /\ []<>(~(LoopRunning /\ backend = "webgl") \/ lastTick = "rendered")

C6_Witness ==
    /\ LoopRunning
    /\ backend = "webgl"
    /\ lastTick = "rendered"
    /\ rafPending = 1

(***************************************************************************)
(* C7  Strict setup ordering: each step of setup has started only after    *)
(* the previous one completed, and a tick exists only after all of them:   *)
(* backend active and ready, model loaded, stream attached, metadata       *)
(* received and the canvas sized to the video's reported size.             *)
(***************************************************************************)
BackendActive == backend \in {"webgl", "cpu"}

C7_SetupOrdering ==
    /\ pc \in {"ready", "createDetector", "getUserMedia", "mounted"} => BackendActive
    /\ pc \in {"createDetector", "getUserMedia", "mounted"} => tfReady
    /\ pc \in {"getUserMedia", "mounted"} => model # Null /\ ctx # Null
    /\ pc = "mounted" => srcObject # Null /\ onloadedmetadata
    /\ tfReady => BackendActive
    /\ model # Null => tfReady
    /\ srcObject # Null => model # Null
    /\ onloadedmetadata => srcObject # Null
    /\ metadataEvents > 0 =>
            /\ onloadedmetadata /\ pc = "mounted" /\ playing
            /\ videoSize \in VideoSizes
            /\ canvasSize = videoSize
    /\ (lastTick \in TickKinds \/ rafPending > 0 \/ inflight > 0 \/ canvas # << >>) =>
            metadataEvents > 0

\* the first tick has called estimateFaces, on a video that reported 320 x 240
C7_Witness ==
    /\ lastTick = "called"
    /\ metadataEvents = 1
    /\ inflight = 1
    /\ canvasSize = <<320, 240>>

(***************************************************************************)
(* C8  Backend selection has exactly three outcomes: 'webgl' active and    *)
(* the fallback not tried; 'webgl' not active, the fallback tried and      *)
(* 'cpu' active, setup continuing without error; neither active, setup     *)
(* stopped with 'Failed to initialize: Failed to set any TensorFlow.js     *)
(* backend.' and nothing loaded, requested or started.                     *)
(***************************************************************************)
\* nothing can happen any more
Stopped == ~ENABLED Next

C8_Outcome ==
    /\ (pc = "setBackendWebgl" /\ backend' = "webgl") =>
            pc' = "ready" /\ error' = Null
    /\ (pc = "setBackendWebgl" /\ backend' # "webgl") =>
            pc' = "setBackendCpu" /\ error' = Null
    /\ (pc = "setBackendCpu" /\ backend' = "cpu") =>
            pc' = "ready" /\ error' = Null
    /\ (pc = "setBackendCpu" /\ backend' # "cpu") =>
            /\ pc' = "failed"
            /\ error' = "Failed to initialize: Failed to set any TensorFlow.js backend."
            /\ model' = Null /\ srcObject' = Null /\ ~onloadedmetadata'
            /\ Stopped'

C8_BackendOutcomes == [][C8_Outcome]_vars

\* the same outcomes, for setBackend calls that resolve
C8_ResolvedOutcomes == [][thrown' \notin Messages => C8_Outcome]_vars

(***************************************************************************)
(* C9  Inference failure leaves the canvas untouched: the segments of a    *)
(* tick whose estimateFaces fails (the call, the catch) make no clearRect  *)
(* and no drawing call and leave the bitmap as it was.                     *)
(***************************************************************************)
C9_FailureLeavesCanvas ==
    [][ /\ lastTick' = "rejected" =>
                /\ canvas' = canvas
                /\ erased' = 0
                /\ CanvasCalls(lastCalls') = << >>
        /\ (lastTick' = "called" /\ metadataEvents' = metadataEvents) =>
                /\ canvas' = canvas
                /\ CanvasCalls(lastCalls') = << >> ]_vars

\* estimateFaces failed while the marks of an earlier tick were on the bitmap
C9_Witness ==
    /\ lastTick = "rejected"
    /\ canvas # << >>
    /\ thrown \in Messages

(***************************************************************************)
(* C10  Graceful degradation: a tick whose result lacks one of the four    *)
(* requested groups, or has it empty, does not fail: error is left alone,  *)
(* the label of that group is placed from the centroid (0,0), every        *)
(* keypoint marker and all four labels are drawn and the next tick is      *)
(* scheduled.                                                              *)
(***************************************************************************)
\* the group is absent from the prediction, or empty
GroupDegraded(prediction, g) ==
    \/ IsUndefined(prediction.annotations)
    \/ IsUndefined(ValueOf(prediction.annotations)[g])
    \/ Len(ValueOf(ValueOf(prediction.annotations)[g])) = 0

Degraded(prediction) == \E g \in Groups : GroupDegraded(prediction, g)

\* the label of each group and its vertical offset from the centroid
LabelText == <<"Left Eye", "Right Eye", "Nose", "Mouth">>
LabelOffset == <<-20, -20, 10, 20>>

C10_Survives ==
    LET prediction == lastPredictions'[1]
        labels == CallsOf(lastCalls', "fillText")
    IN  /\ lastTick' = "rendered"
        /\ error' = error
        /\ thrown' = Null
        /\ rafPending' = rafPending + 1
        /\ ~IsUndefined(prediction.keypoints)
        /\ Len(CallsOf(lastCalls', "arc")) = Len(ValueOf(prediction.keypoints))
        /\ Len(labels) = 4
        /\ \A k \in 1..4 :
             /\ labels[k].text = LabelText[k]
             /\ GroupDegraded(prediction, GroupNames[k]) =>
                    labels[k].x = <<0, 1>> /\ labels[k].y = <<LabelOffset[k], 1>>

C10_GracefulDegradation ==
    [][ (lastTick' \in {"rendered", "drawThrew"} /\ Len(lastPredictions') > 0
            /\ Degraded(lastPredictions'[1])) => C10_Survives ]_vars

\* the same, for results that have their keypoints and their annotations object
C10_WithAnnotations ==
    [][ (lastTick' \in {"rendered", "drawThrew"} /\ Len(lastPredictions') > 0
            /\ Degraded(lastPredictions'[1])
            /\ ~IsUndefined(lastPredictions'[1].keypoints)
            /\ ~IsUndefined(lastPredictions'[1].annotations)) => C10_Survives ]_vars

(***************************************************************************)
(* C11  Centroid computation.  getCenter returns exactly (0, 0) for a      *)
(* missing or an empty group.  For a group of N > 0 points it returns the  *)
(* sum of the x coordinates over N and the sum of the y coordinates over   *)
(* N; so a single point comes back as itself, N copies of one point come   *)
(* back as that point, and the four corners (0,0), (10,0), (0,10),         *)
(* (10,10) give (5, 5).                                                    *)
(***************************************************************************)
IsRatio(q, sum, n) == q[2] > 0 /\ q[1] * n = sum * q[2]

IsPoint(c, p) == c = [x |-> <<p[1], 1>>, y |-> <<p[2], 1>>]

RECURSIVE Total(_, _, _)
Total(ps, coord, from) ==
    IF from > Len(ps) THEN 0 ELSE ps[from][coord] + Total(ps, coord, from + 1)

Square == {<<0, 0>>, <<10, 0>>, <<0, 10>>, <<10, 10>>}

C11_Centroid ==
    ~IsUndefined(center) =>
        LET c == ValueOf(center)
        IN  IF IsUndefined(points) \/ ValueOf(points) = << >>
            THEN IsPoint(c, <<0, 0>>)
            ELSE LET ps == ValueOf(points)
                     N  == Len(ps)
                 IN  /\ IsRatio(c.x, Total(ps, 1, 1), N)
                     /\ IsRatio(c.y, Total(ps, 2, 1), N)
                     /\ N = 1 => IsPoint(c, ps[1])
                     /\ (\A i \in 1..N : ps[i] = ps[1]) => IsPoint(c, ps[1])
                     /\ (N = 4 /\ {ps[i] : i \in 1..N} = Square)
                            => IsPoint(c, <<5, 5>>)

C11_Witness ==
    /\ points = Defined(<< <<0, 0>>, <<10, 0>>, <<0, 10>>, <<10, 10>> >>)
    /\ center = Defined([x |-> <<5, 1>>, y |-> <<5, 1>>])

(***************************************************************************)
(* C12  Label placement.  In a tick that drew a face, the four labels are  *)
(* written in the order Left Eye, Right Eye, Nose, Mouth, each at the x of *)
(* the centroid of its own group (leftEyeUpper0, rightEyeUpper0,           *)
(* noseBottom, lipsUpperOuter) and at that centroid's y moved by -20, -20, *)
(* +10 and +20.                                                            *)
(***************************************************************************)
SameRatio(p, q) == p[1] * q[2] = q[1] * p[2]

Shifted(q, k) == <<q[1] + k * q[2], q[2]>>

GroupCenter(prediction, k) ==
    getCenter(ValueOf(prediction.annotations)[GroupNames[k]])

C12_LabelPlacement ==
    (lastTick = "rendered" /\ Len(lastPredictions) > 0) =>
        LET prediction == lastPredictions[1]
            labels == CallsOf(lastCalls, "fillText")
        IN  /\ ~IsUndefined(prediction.annotations)
            /\ Len(labels) = 4
            /\ \A k \in 1..4 :
                 /\ labels[k].text = LabelText[k]
                 /\ SameRatio(labels[k].x, GroupCenter(prediction, k).x)
                 /\ SameRatio(labels[k].y,
                              Shifted(GroupCenter(prediction, k).y, LabelOffset[k]))

C12_Witness ==
    /\ lastTick = "rendered"
    /\ Len(lastPredictions) > 0
    /\ ~IsUndefined(lastPredictions[1].annotations)
    /\ \A g \in Groups :
         /\ ~IsUndefined(ValueOf(lastPredictions[1].annotations)[g])
         /\ Len(ValueOf(ValueOf(lastPredictions[1].annotations)[g])) = MaxPoints
    /\ Len(CallsOf(lastCalls, "fillText")) = 4
    /\ CallsOf(lastCalls, "fillText")[2].x # CallsOf(lastCalls, "fillText")[1].x

(***************************************************************************)
(* C13  Step order within a tick.  A tick that passes the gate calls       *)
(* estimateFaces and nothing else before the inference completes.  When    *)
(* the inference has completed and nothing is thrown, the tick first       *)
(* clears the whole canvas, then draws (and draws only if the result is    *)
(* non-empty), then schedules the next tick: exactly one, whether the      *)
(* result was empty or not.                                                *)
(***************************************************************************)
C13_Rendered ==
    LET calls == lastCalls'
        n == Len(calls)
    IN  /\ inflight > 0
        /\ inflight' = inflight - 1
        /\ n >= 2
        /\ calls[1] = clearRectCall(0, 0, canvasSize[1], canvasSize[2])
        /\ \A i \in 2..(n - 1) : IsDraw(calls[i])
        /\ calls[n].op = "requestAnimationFrame"
        /\ Len(lastPredictions') = 0 <=> n = 2
        /\ rafPending' = rafPending + 1

C13_StepOrder ==
    [][ /\ lastTick' = "called" =>
              /\ lastCalls' = << Call("estimateFaces") >>
              /\ inflight' = inflight + 1
        /\ lastTick' = "rendered" => C13_Rendered ]_vars

C13_Witness ==
    /\ lastTick = "rendered"
    /\ Len(lastPredictions) > 0
    /\ Len(CallsOf(lastCalls, "arc")) = MaxPoints
    /\ lastCalls[1].op = "clearRect"
    /\ lastCalls[Len(lastCalls)].op = "requestAnimationFrame"
    /\ rafPending > 0

(***************************************************************************)
(* C14  Exclusive outcome of a tick.  The step in which a tick ends does   *)
(* exactly one of two things: it schedules exactly one further tick and    *)
(* leaves the error field as it was, or it assigns the error field and     *)
(* schedules nothing.  Never both, never neither, never two further ticks. *)
(***************************************************************************)
EndsTick == lastTick' \in TickKinds \ {"called"}

Scheduled == Len(CallsOf(lastCalls', "requestAnimationFrame"))

\* the frames requested by the step, counted on the queue of pending callbacks:
\* a step that is itself a frame callback has taken one callback off the queue
Queued ==
    IF lastTick' = "gated" /\ metadataEvents' = metadataEvents
    THEN rafPending' - rafPending + 1
    ELSE rafPending' - rafPending

C14_Rescheduled ==
    /\ Scheduled = 1
    /\ Queued = 1
    /\ thrown' = Null
    /\ error' = error

C14_Failed ==
    /\ Scheduled = 0
    /\ Queued = 0
    /\ thrown' # Null
    /\ error' = "Detection failed: " \o thrown'

C14_ExclusiveOutcome ==
    [][ EndsTick => /\ C14_Rescheduled \/ C14_Failed
                    /\ ~(C14_Rescheduled /\ C14_Failed)
                    /\ Len(CallsOf(lastCalls', "estimateFaces")) = 0 ]_vars

C14_Witness ==
    /\ lastTick = "drawThrew"
    /\ thrown = TypeErrorMessage("leftEyeUpper0")
    /\ error = "Detection failed: " \o thrown
    /\ Len(CallsOf(lastCalls, "requestAnimationFrame")) = 0
    /\ rafPending = 0
    /\ inflight = 0

(***************************************************************************)
(* C15  Error state is absorbing.  The error field is written at most      *)
(* once: once it holds a message it never changes (so 'Failed to           *)
(* initialize' and 'Detection failed' never both occur).  In every state   *)
(* in which it holds a message no tick is pending or running, and no step  *)
(* of a tick (inference call, canvas clear, drawing) happens afterwards.   *)
(***************************************************************************)
C15_Quiet == error # Null => rafPending = 0 /\ inflight = 0

C15_Step ==
    error # Null => /\ error' = error
                    /\ lastTick' \notin TickKinds
                    /\ canvas' = canvas

C15_ErrorAbsorbing == [](C15_Quiet) /\ [][C15_Step]_vars

(***************************************************************************)
(* C16  Backend stability.  Under FairSpec (frame callbacks fire): no step *)
(* taken after setup has completed changes the backend.  When setup ended  *)
(* on 'cpu', estimateFaces is never called, the canvas is never cleared or *)
(* drawn on, error stays unset, every loop that was started has exactly    *)
(* one frame callback pending, and gated ticks keep happening forever.     *)
(***************************************************************************)
CpuFallback == pc = "mounted" /\ backend = "cpu"

C16_Unchanged == pc = "mounted" => backend' = backend

C16_OnlyWaits ==
    CpuFallback =>
        /\ error = Null
        /\ inflight = 0
        /\ canvas = << >>
        /\ lastTick \in {"setup", "gated"}
        /\ CallsOf(lastCalls, "estimateFaces") = << >>
        /\ CanvasCalls(lastCalls) = << >>
        /\ rafPending = metadataEvents

C16_BackendStability ==
    /\ [][C16_Unchanged]_vars
    /\ [](C16_OnlyWaits)
    /\ []<>(~(CpuFallback /\ metadataEvents > 0) \/ (lastTick = "gated" /\ waits = 0))
    /\ []<>(~(CpuFallback /\ metadataEvents > 0) \/ (lastTick = "gated" /\ waits = 1))

C16_Witness ==
    /\ CpuFallback
    /\ metadataEvents > 0
    /\ lastTick = "gated"
    /\ waits = 0
    /\ rafPending = metadataEvents
    /\ canvas = << >>

====
